---- MODULE Spec2Model ----
(***************************************************************************)
(* Capital Project Portfolio Dashboard: the load_data pipeline of          *)
(* streamlit_app.py (read, clean column names, deduplicate, coerce the     *)
(* financial columns, classify the monthly columns, derive the metrics)    *)
(* and the script around it (sidebar filters, sections, top and bottom     *)
(* five rankings, later runs of the script served from st.cache_data).     *)
(*                                                                         *)
(* Text is a sequence of one-character strings.  A number is an integer    *)
(* count of 1/Scale units (fixed point), so that "1,234.50" and its sum    *)
(* with other cells are exact.  A cell is a record [k, s, v]: text         *)
(* (k = "str"), a missing value (k = "nan") or a number (k = "num").       *)
(***************************************************************************)
EXTENDS Integers, Sequences, FiniteSets, TLC

VARIABLES
    pc,                         \* position of the run in load_data and the script
    current_year,               \* module global, line 11
    current_month,              \* module global, line 12
    uploaded_file,              \* the upload: [ok, header, rows]
    columns,                    \* df.columns
    data,                       \* df's rows: data[r][i] is the cell of columns[i]
    financial_cols_to_convert,  \* line 77
    monthly_actuals_cols,       \* line 91
    monthly_forecasts_cols,     \* line 92
    monthly_plan_cols,          \* line 93
    ytd_actual_cols,            \* line 133
    monthly_af_variance_cols,   \* line 161
    derived,                    \* the derived columns: derived[r] is a record of row r
    warnings,                   \* the st.warning / st.error messages of load_data
    cache,                      \* st.cache_data: the uploads whose table is stored
    reruns_left,                \* the later runs of the script still to come
    selected_filters,           \* line 211, in the order of filter_columns
    filtered_df,                \* lines 224-226: the row labels kept
    rendered,                   \* what the run has shown after load_data
    top5_managers,              \* line 555: pm_performance.head(5)
    bottom5_managers,           \* line 560
    top5_projects,              \* line 575: the row labels of head(5)
    bottom5_projects            \* line 583

vars == << pc, current_year, current_month, uploaded_file, columns, data,
           financial_cols_to_convert, monthly_actuals_cols, monthly_forecasts_cols,
           monthly_plan_cols, ytd_actual_cols, monthly_af_variance_cols, derived,
           warnings, cache, reruns_left, selected_filters, filtered_df, rendered,
           top5_managers, bottom5_managers, top5_projects, bottom5_projects >>

\* what the script keeps of a run beside the table
session_vars == << reruns_left, selected_filters, filtered_df, rendered,
                  top5_managers, bottom5_managers, top5_projects, bottom5_projects >>

-----------------------------------------------------------------------------
(* Bounds of the model                                                     *)

\* longest header sequence drawn for the header family
MaxCols == 3
\* longest cell text drawn for the cell family
MaxCellLen == 3
\* most columns of a table drawn for the metrics family
MaxDataCols == 4
\* the longest raw header of the name family
MaxNameLen == 3
\* most columns of a table drawn for the selection family
MaxSelectCols == 2
\* most projects of a table drawn for the ranking family
MaxRankRows == 6
\* most later runs of the script in one session
MaxReruns == 1

\* decimal places a number keeps: a text of MaxCellLen characters has fewer
Decimals == IF MaxCellLen > 2 THEN MaxCellLen ELSE 2
Scale == 10 ^ Decimals

-----------------------------------------------------------------------------
(* Characters and text                                                     *)

Digit == <<"0", "1", "2", "3", "4", "5", "6", "7", "8", "9">>
DigitChars == {Digit[i] : i \in 1..10}
LowerCase == <<"a","b","c","d","e","f","g","h","i","j","k","l","m",
               "n","o","p","q","r","s","t","u","v","w","x","y","z">>
UpperCase == <<"A","B","C","D","E","F","G","H","I","J","K","L","M",
               "N","O","P","Q","R","S","T","U","V","W","X","Y","Z">>
\* the characters str.strip() removes
Whitespace == {" ", "\t", "\n", "\r"}

IsDigit(c) == c \in DigitChars
DigitValue(c) == (CHOOSE i \in 1..10 : Digit[i] = c) - 1

\* str(n) of a non-negative integer
RECURSIVE IntToStr(_)
IntToStr(n) ==
    IF n < 10 THEN << Digit[n + 1] >>
    ELSE IntToStr(n \div 10) \o << Digit[(n % 10) + 1] >>

\* f"{i:02d}"
Format02d(i) == IF i < 10 THEN << "0" >> \o IntToStr(i) ELSE IntToStr(i)

\* int(s) of a text of digits
RECURSIVE StrToInt(_)
StrToInt(s) ==
    IF Len(s) = 0 THEN 0
    ELSE 10 * StrToInt(SubSeq(s, 1, Len(s) - 1)) + DigitValue(s[Len(s)])

\* str.strip()
RECURSIVE lstrip(_)
lstrip(s) ==
    IF Len(s) > 0 /\ s[1] \in Whitespace THEN lstrip(Tail(s)) ELSE s
RECURSIVE rstrip(_)
rstrip(s) ==
    IF Len(s) > 0 /\ s[Len(s)] \in Whitespace
    THEN rstrip(SubSeq(s, 1, Len(s) - 1)) ELSE s
strip(s) == rstrip(lstrip(s))

\* str.replace(old, new) for a single character old and a text new
RECURSIVE replace(_, _, _)
replace(s, old, new) ==
    IF Len(s) = 0 THEN << >>
    ELSE (IF s[1] = old THEN new ELSE << s[1] >>) \o replace(Tail(s), old, new)

\* str.split(sep) for a single character sep: the pieces, empty ones included
RECURSIVE split(_, _)
split(s, sep) ==
    IF \A i \in 1..Len(s) : s[i] # sep THEN << s >>
    ELSE LET i == CHOOSE j \in 1..Len(s) :
                      s[j] = sep /\ \A k \in 1..(j - 1) : s[k] # sep
         IN  << SubSeq(s, 1, i - 1) >> \o split(SubSeq(s, i + 1, Len(s)), sep)

\* sep.join(parts)
RECURSIVE join(_, _)
join(sep, parts) ==
    IF Len(parts) = 0 THEN << >>
    ELSE IF Len(parts) = 1 THEN parts[1]
    ELSE parts[1] \o sep \o join(sep, Tail(parts))

\* filter(None, parts): the non-empty pieces
RECURSIVE filter_nonempty(_)
filter_nonempty(parts) ==
    IF Len(parts) = 0 THEN << >>
    ELSE (IF Len(parts[1]) = 0 THEN << >> ELSE << parts[1] >>)
         \o filter_nonempty(Tail(parts))

\* str.upper()
upper_char(c) ==
    IF \E i \in 1..26 : LowerCase[i] = c
    THEN UpperCase[CHOOSE i \in 1..26 : LowerCase[i] = c]
    ELSE c
upper(s) == [i \in 1..Len(s) |-> upper_char(s[i])]

-----------------------------------------------------------------------------
(* Column Normalizer                                                       *)

PROJEC_TID == <<"P","R","O","J","E","C","_","T","I","D">>
PROJECT_ID == <<"P","R","O","J","E","C","T","_","I","D">>
INI_MATIVE_PROGRAM == <<"I","N","I","_","M","A","T","I","V","E","_","P","R","O","G","R","A","M">>
INITIATIVE_PROGRAM == <<"I","N","I","T","I","A","T","I","V","E","_","P","R","O","G","R","A","M">>
ALL_PRIOR_YEARS_A == <<"A","L","L","_","P","R","I","O","R","_","Y","E","A","R","S","_","A">>
ALL_PRIOR_YEARS_ACTUALS == <<"A","L","L","_","P","R","I","O","R","_","Y","E","A","R","S","_","A","C","T","U","A","L","S">>
C_URRENT_EAC == <<"C","_","U","R","R","E","N","T","_","E","A","C">>
CURRENT_EAC == <<"C","U","R","R","E","N","T","_","E","A","C">>
QE_RUN_RATE == <<"Q","E","_","R","U","N","_","R","A","T","E">>
RATE_1 == <<"R","A","T","E","_","1">>
RATE_SUPPLEMENTARY == <<"R","A","T","E","_","S","U","P","P","L","E","M","E","N","T","A","R","Y">>
BUSINESS_ALLOCATION == <<"B","U","S","I","N","E","S","S","_","A","L","L","O","C","A","T","I","O","N">>
QE_FORECAST_VS_QE_PLAN == <<"Q","E","_","F","O","R","E","C","A","S","T","_","V","S","_","Q","E","_","P","L","A","N">>
FORECAST_VS_BA == <<"F","O","R","E","C","A","S","T","_","V","S","_","B","A">>
YE_RUN == <<"Y","E","_","R","U","N">>
RATE == <<"R","A","T","E">>
QE_RUN == <<"Q","E","_","R","U","N">>

\* the corrections dict of clean_col_name: << key, value >> pairs
corrections ==
    << << PROJEC_TID, PROJECT_ID >>,
       << INI_MATIVE_PROGRAM, INITIATIVE_PROGRAM >>,
       << ALL_PRIOR_YEARS_A, ALL_PRIOR_YEARS_ACTUALS >>,
       << C_URRENT_EAC, CURRENT_EAC >>,
       << QE_RUN_RATE, QE_RUN_RATE >>,
       << RATE_1, RATE_SUPPLEMENTARY >> >>

\* corrections.get(col_name, col_name)
corrections_get(col_name) ==
    IF \E i \in 1..Len(corrections) : corrections[i][1] = col_name
    THEN corrections[CHOOSE i \in 1..Len(corrections) : corrections[i][1] = col_name][2]
    ELSE col_name

\* clean_col_name without the replacement of '-'
clean_col_name_hyphen_kept(col_name) ==
    LET replaced ==
            replace(replace(replace(strip(col_name),
                " ", << "_" >>), "+", << "_" >>), ".", << "_" >>)
        collapsed == join(<< "_" >>, filter_nonempty(split(replaced, "_")))
    IN  corrections_get(upper(collapsed))

\* clean_col_name: strip, replace ' ' '+' '.' '-' by '_', collapse the
\* underscores ('_'.join(filter(None, split('_')))), uppercase, correct
clean_col_name(col_name) ==
    LET replaced ==
            replace(replace(replace(replace(strip(col_name),
                " ", << "_" >>), "+", << "_" >>), ".", << "_" >>), "-", << "_" >>)
        collapsed == join(<< "_" >>, filter_nonempty(split(replaced, "_")))
    IN  corrections_get(upper(collapsed))

\* seen.get(col, 0): seen is a set of << name, count >> pairs, one per name
seen_get(seen, col) ==
    IF \E p \in seen : p[1] = col
    THEN (CHOOSE p \in seen : p[1] = col)[2]
    ELSE 0

\* seen_put that records an occurrence but never counts past one
seen_put_once(seen, col, n) == {p \in seen : p[1] # col} \cup {<< col, 1 >>}

\* seen[original_col] = count + 1
seen_put(seen, col, n) == {p \in seen : p[1] # col} \cup {<< col, n >>}

\* f"{col}_{count}"
suffixed(col, count) == col \o << "_" >> \o IntToStr(count)

\* the loop of lines 62-70 from position i on, with the cols built so far
RECURSIVE dedup_loop(_, _, _, _)
dedup_loop(names, i, cols, seen) ==
    IF i > Len(names) THEN cols
    ELSE LET original_col == names[i]
             count == seen_get(seen, original_col)
             col == IF count > 0 THEN suffixed(original_col, count) ELSE original_col
         IN  dedup_loop(names, i + 1, Append(cols, col),
                        seen_put(seen, original_col, count + 1))

deduplicate(names) == dedup_loop(names, 1, << >>, {})

-----------------------------------------------------------------------------
(* Regular expressions                                                     *)

\* '$' outside MULTILINE matches at the end of the text and before a newline
\* that ends it: the texts a pattern anchored by '$' may have to match in full
dollar_bodies(s) ==
    {s} \cup (IF Len(s) > 0 /\ s[Len(s)] = "\n" THEN {SubSeq(s, 1, Len(s) - 1)} ELSE {})

\* \d+ in full
all_digits(s) == Len(s) > 0 /\ \A i \in 1..Len(s) : IsDigit(s[i])

\* (A|F|CP) in full: the suffix matched, << >> when none
type_suffix(s) ==
    IF s = << "A" >> \/ s = << "F" >> \/ s = << "C", "P" >> THEN s ELSE << >>

\* 20\d{2}_\d{2}_(A|F|CP)(_\d+)? in full
\* the monthly alternative of financial_pattern without its (_\d+)? group
fin_monthly_fullmatch_exact(s) ==
    /\ Len(s) >= 9
    /\ s[1] = "2" /\ s[2] = "0" /\ IsDigit(s[3]) /\ IsDigit(s[4])
    /\ s[5] = "_" /\ IsDigit(s[6]) /\ IsDigit(s[7]) /\ s[8] = "_"
    /\ type_suffix(SubSeq(s, 9, Len(s))) # << >>

fin_monthly_fullmatch(s) ==
    /\ Len(s) >= 9
    /\ s[1] = "2" /\ s[2] = "0" /\ IsDigit(s[3]) /\ IsDigit(s[4])
    /\ s[5] = "_" /\ IsDigit(s[6]) /\ IsDigit(s[7]) /\ s[8] = "_"
    /\ \E n \in 1..2 :
          /\ Len(s) >= 8 + n
          /\ type_suffix(SubSeq(s, 9, 8 + n)) # << >>
          /\ \/ Len(s) = 8 + n
             \/ /\ Len(s) > 9 + n
                /\ s[9 + n] = "_"
                /\ all_digits(SubSeq(s, 10 + n, Len(s)))

\* the exact metric names of financial_pattern
FinancialNames ==
    { ALL_PRIOR_YEARS_ACTUALS, BUSINESS_ALLOCATION, CURRENT_EAC, QE_FORECAST_VS_QE_PLAN,
      FORECAST_VS_BA, YE_RUN, RATE, QE_RUN, RATE_SUPPLEMENTARY }

\* pd.Series([col]).str.contains(financial_pattern, regex=True).any()
financial_pattern(col) ==
    \E b \in dollar_bodies(col) : fin_monthly_fullmatch(b) \/ b \in FinancialNames

\* monthly_col_pattern without its closing '$': a prefix match
monthly_col_pattern_open(col, year) ==
    LET y == IntToStr(year)
        n == Len(y)
        hit(k) == /\ Len(col) >= n + 4 + k
                  /\ SubSeq(col, 1, n) = y
                  /\ col[n + 1] = "_" /\ IsDigit(col[n + 2]) /\ IsDigit(col[n + 3])
                  /\ col[n + 4] = "_"
                  /\ type_suffix(SubSeq(col, n + 5, n + 4 + k)) # << >>
    IN  IF hit(1) THEN SubSeq(col, n + 5, n + 5)
        ELSE IF hit(2) THEN SubSeq(col, n + 5, n + 6)
        ELSE << >>

\* monthly_col_pattern.match(col): group(1), << >> when there is no match
monthly_col_pattern(col, year) ==
    LET y == IntToStr(year)
        n == Len(y)
        hit(b) == /\ Len(b) > n + 4
                  /\ SubSeq(b, 1, n) = y
                  /\ b[n + 1] = "_" /\ IsDigit(b[n + 2]) /\ IsDigit(b[n + 3])
                  /\ b[n + 4] = "_"
                  /\ type_suffix(SubSeq(b, n + 5, Len(b))) # << >>
    IN  IF \E b \in dollar_bodies(col) : hit(b)
        THEN LET b == CHOOSE c \in dollar_bodies(col) : hit(c)
             IN  SubSeq(b, n + 5, Len(b))
        ELSE << >>

-----------------------------------------------------------------------------
(* Cells and the Financial Coercer                                         *)

Str(s) == [k |-> "str", s |-> s, v |-> 0]
NaN == [k |-> "nan", s |-> << >>, v |-> 0]
Num(v) == [k |-> "num", s |-> << >>, v |-> v]

\* 10 to the n
Pow10(n) == 10 ^ n

\* the digits of a fraction of Scale, without trailing zeros, one digit at least
RECURSIVE frac_digits(_, _)
frac_digits(f, width) ==
    IF width = 0 THEN << >>
    ELSE IF f % 10 = 0 /\ width > 1 /\ f # 0 THEN frac_digits(f \div 10, width - 1)
    ELSE IF f = 0 THEN << "0" >>
    ELSE LET d == IntToStr(f)
         IN  [i \in 1..(width - Len(d)) |-> "0"] \o d

\* str(x) of a float x
float_str(v) ==
    LET a == IF v < 0 THEN -v ELSE v
    IN  (IF v < 0 THEN << "-" >> ELSE << >>)
        \o IntToStr(a \div Scale) \o << "." >> \o frac_digits(a % Scale, Decimals)

\* Series.astype(str) on one cell
astype_str(cell) ==
    IF cell.k = "str" THEN cell.s
    ELSE IF cell.k = "nan" THEN << "n", "a", "n" >>
    ELSE float_str(cell.v)

\* the decimal texts pd.to_numeric parses: an optional sign, digits with at
\* most one point, one digit at least
is_decimal(s) ==
    LET body == IF Len(s) > 0 /\ s[1] \in {"-", "+"} THEN Tail(s) ELSE s
    IN  /\ \A i \in 1..Len(body) : IsDigit(body[i]) \/ body[i] = "."
        /\ Cardinality({i \in 1..Len(body) : body[i] = "."}) <= 1
        /\ \E i \in 1..Len(body) : IsDigit(body[i])

\* the value of a decimal text, in 1/Scale units
decimal_value(s) ==
    LET neg == Len(s) > 0 /\ s[1] = "-"
        body == IF Len(s) > 0 /\ s[1] \in {"-", "+"} THEN Tail(s) ELSE s
        dot == IF \E i \in 1..Len(body) : body[i] = "."
               THEN CHOOSE i \in 1..Len(body) : body[i] = "."
               ELSE Len(body) + 1
        int_part == SubSeq(body, 1, dot - 1)
        frac_part == SubSeq(body, dot + 1, Len(body))
        mag == StrToInt(int_part) * Scale
               + StrToInt(frac_part) * Pow10(Decimals - Len(frac_part))
    IN  IF neg THEN -mag ELSE mag

\* pd.to_numeric(errors='coerce') on one cell: a number, or NaN for a text
\* that is no number (and for the text "nan")
to_numeric(cell) ==
    IF cell.k = "str"
    THEN IF is_decimal(cell.s) THEN Num(decimal_value(cell.s)) ELSE NaN
    ELSE cell

\* .fillna(0) on one cell
fillna0(cell) == IF cell.k = "nan" THEN Num(0) ELSE cell

\* Series.replace('', '0') on one text
replace_empty(s) == IF s = << >> THEN << "0" >> ELSE s

\* lines 82-83 without the removal of the commas
convert_cell_commas_kept(cell) ==
    fillna0(to_numeric(Str(replace_empty(strip(astype_str(cell))))))

\* lines 82-83 on one cell
convert_cell(cell) ==
    fillna0(to_numeric(Str(replace_empty(strip(replace(astype_str(cell), ",", << >>))))))

\* line 113 on one cell
renumeric_cell(cell) == fillna0(to_numeric(cell))

-----------------------------------------------------------------------------
(* The table                                                               *)

NumRows == Len(data)
Rows == 1..NumRows

\* the elements of a list
Range(seq) == {seq[i] : i \in 1..Len(seq)}

\* the positions of the columns labelled name
positions(name) == {i \in 1..Len(columns) : columns[i] = name}

\* a label carried by more than one column: df[name] is then a DataFrame
is_duplicated(name) == Cardinality(positions(name)) > 1

\* what a cell adds to a sum (skipna leaves a missing value out)
cell_value(cell) == IF cell.k = "num" THEN cell.v ELSE 0

RECURSIVE sum_over(_, _)
sum_over(row, idx) ==
    IF idx = {} THEN 0
    ELSE LET i == CHOOSE j \in idx : TRUE
         IN  cell_value(row[i]) + sum_over(row, idx \ {i})

\* df[cols].sum(axis=1) on one row: every column whose label is listed, once
\* per listing
RECURSIVE row_sum(_, _)
row_sum(row, cols) ==
    IF Len(cols) = 0 THEN 0
    ELSE sum_over(row, positions(cols[1])) + row_sum(row, Tail(cols))

\* df[name] on one row, for a label that one column carries
col_value(row, name) == cell_value(row[CHOOSE i \in positions(name) : TRUE])

abs(x) == IF x < 0 THEN -x ELSE x

\* f'{current_year}_{i:02d}_A' and its siblings
monthly_name(year, i, suffix) ==
    IntToStr(year) \o << "_" >> \o Format02d(i) \o << "_" >> \o suffix

af_variance_suffix == <<"A","F","_","V","A","R","I","A","N","C","E">>

-----------------------------------------------------------------------------
(* load_data, step by step                                                 *)

\* lines 30-34: pd.read_csv; an unreadable upload is reported and the empty
\* table returned.  read_csv turns an empty field into a missing value and
\* leaves every other field as its text.
ReadCsv ==
    /\ pc = "start"
    /\ IF uploaded_file.ok
       THEN /\ columns' = uploaded_file.header
            /\ data' = [r \in 1..Len(uploaded_file.rows) |->
                          [i \in 1..Len(uploaded_file.header) |->
                             IF uploaded_file.rows[r][i] = << >> THEN NaN
                             ELSE Str(uploaded_file.rows[r][i])]]
            /\ pc' = "read"
            /\ UNCHANGED warnings
       ELSE /\ columns' = << >>
            /\ data' = << >>
            /\ pc' = "returned"
            /\ warnings' = warnings \cup {"Error loading file"}
    /\ UNCHANGED << current_year, current_month, uploaded_file,
                    financial_cols_to_convert, monthly_actuals_cols,
                    monthly_forecasts_cols, monthly_plan_cols, ytd_actual_cols,
                    monthly_af_variance_cols, derived >>
    /\ cache' = IF uploaded_file.ok THEN cache ELSE cache \cup {uploaded_file}
    /\ UNCHANGED session_vars

\* line 59
CleanColumnNames ==
    /\ pc = "read"
    /\ columns' = [i \in 1..Len(columns) |-> clean_col_name(columns[i])]
    /\ pc' = "cleaned"
    /\ UNCHANGED << current_year, current_month, uploaded_file, data,
                    financial_cols_to_convert, monthly_actuals_cols,
                    monthly_forecasts_cols, monthly_plan_cols, ytd_actual_cols,
                    monthly_af_variance_cols, derived, warnings >>
    /\ UNCHANGED << cache, session_vars >>

\* lines 61-71
Deduplicate ==
    /\ pc = "cleaned"
    /\ columns' = deduplicate(columns)
    /\ pc' = "deduped"
    /\ UNCHANGED << current_year, current_month, uploaded_file, data,
                    financial_cols_to_convert, monthly_actuals_cols,
                    monthly_forecasts_cols, monthly_plan_cols, ytd_actual_cols,
                    monthly_af_variance_cols, derived, warnings >>
    /\ UNCHANGED << cache, session_vars >>

\* lines 73-83.  df[col] of a label that two columns carry is a DataFrame,
\* which has no .str accessor: line 82 raises and load_data is left.
ConvertFinancial ==
    /\ pc = "deduped"
    /\ LET selected == SelectSeq(columns, financial_pattern)
       IN  /\ financial_cols_to_convert' = selected
           /\ IF \E c \in Range(selected) : is_duplicated(c)
              THEN /\ pc' = "raised"
                   /\ UNCHANGED data
              ELSE /\ pc' = "converted"
                   /\ data' = [r \in Rows |->
                                 [i \in 1..Len(columns) |->
                                    IF columns[i] \in Range(selected)
                                    THEN convert_cell(data[r][i])
                                    ELSE data[r][i]]]
    /\ UNCHANGED << current_year, current_month, uploaded_file, columns,
                    monthly_actuals_cols, monthly_forecasts_cols, monthly_plan_cols,
                    ytd_actual_cols, monthly_af_variance_cols, derived, warnings >>
    /\ UNCHANGED << cache, session_vars >>

\* the columns of one type, in column order (lines 95-105)
classified(suffix) ==
    SelectSeq(columns, LAMBDA col : monthly_col_pattern(col, current_year) = suffix)

\* lines 89-113
ClassifyMonthly ==
    /\ pc = "converted"
    /\ LET actuals == classified(<< "A" >>)
           forecasts == classified(<< "F" >>)
           plans == classified(<< "C", "P" >>)
           monthly == Range(actuals) \cup Range(forecasts) \cup Range(plans)
       IN  /\ monthly_actuals_cols' = actuals
           /\ monthly_forecasts_cols' = forecasts
           /\ monthly_plan_cols' = plans
           /\ IF \E c \in monthly : is_duplicated(c)
              THEN /\ pc' = "raised"
                   /\ UNCHANGED data
              ELSE /\ pc' = "classified"
                   /\ data' = [r \in Rows |->
                                 [i \in 1..Len(columns) |->
                                    IF columns[i] \in monthly
                                    THEN renumeric_cell(data[r][i])
                                    ELSE data[r][i]]]
    /\ UNCHANGED << current_year, current_month, uploaded_file, columns,
                    financial_cols_to_convert, ytd_actual_cols,
                    monthly_af_variance_cols, derived, warnings >>
    /\ UNCHANGED << cache, session_vars >>

\* df[cols].sum(axis=1) if cols else 0, on one row
total_of(row, cols) == IF Len(cols) > 0 THEN row_sum(row, cols) ELSE 0

\* line 116
total_actuals(row) == total_of(row, monthly_actuals_cols)
\* line 118 summing the actuals list
total_forecasts_of_actuals(row) == total_of(row, monthly_actuals_cols)

\* line 118
total_forecasts(row) == total_of(row, monthly_forecasts_cols)
\* line 119
total_capital_plan(row) == total_of(row, monthly_plan_cols)

\* lines 115-127
ComputeTotals ==
    /\ pc = "classified"
    /\ LET prior == ALL_PRIOR_YEARS_ACTUALS \in Range(columns)
       IN  /\ derived' = [r \in Rows |->
                 [TOTAL_ACTUALS |-> total_actuals(data[r]),
                  TOTAL_FORECASTS |-> total_forecasts(data[r]),
                  TOTAL_CAPITAL_PLAN |-> total_capital_plan(data[r]),
                  TOTAL_ACTUALS_TO_DATE |->
                      IF prior
                      THEN col_value(data[r], ALL_PRIOR_YEARS_ACTUALS)
                           + total_actuals(data[r])
                      ELSE total_actuals(data[r])]]
           /\ warnings' = IF prior THEN warnings
                          ELSE warnings \cup {"ALL_PRIOR_YEARS_ACTUALS not found"}
    /\ pc' = "totals"
    /\ UNCHANGED << current_year, current_month, uploaded_file, columns, data,
                    financial_cols_to_convert, monthly_actuals_cols,
                    monthly_forecasts_cols, monthly_plan_cols, ytd_actual_cols,
                    monthly_af_variance_cols >>
    /\ UNCHANGED << cache, session_vars >>

\* the comparison of line 133 made strict
is_ytd_strict(col) == StrToInt(split(col, "_")[2]) < current_month

\* int(col.split('_')[1]) <= current_month
is_ytd(col) == StrToInt(split(col, "_")[2]) <= current_month

\* lines 131-138 (RUN_RATE_PER_MONTH, a division by 12, is left out)
ComputeSpend ==
    /\ pc = "totals"
    /\ LET ytd == SelectSeq(monthly_actuals_cols, is_ytd)
       IN  /\ ytd_actual_cols' = ytd
           /\ derived' = [r \in Rows |-> derived[r] @@
                 [SUM_ACTUAL_SPEND_YTD |->
                      IF Len(ytd) > 0 THEN row_sum(data[r], ytd) ELSE 0,
                  SUM_OF_FORECASTED_NUMBERS |-> derived[r].TOTAL_FORECASTS]]
    /\ pc' = "spend"
    /\ UNCHANGED << current_year, current_month, uploaded_file, columns, data,
                    financial_cols_to_convert, monthly_actuals_cols,
                    monthly_forecasts_cols, monthly_plan_cols,
                    monthly_af_variance_cols, warnings >>
    /\ UNCHANGED << cache, session_vars >>

\* the lambda of line 149 without abs
overspend_signed(x) == IF x < 0 THEN x ELSE 0

\* the underspend without its clamp
underspend_unclamped(x) == x

\* lines 148-149: the two lambdas
underspend_of(x) == IF x > 0 THEN x ELSE 0
overspend_of(x) == IF x < 0 THEN abs(x) ELSE 0

\* line 147 against the actuals
capital_variance_actuals(row, d) == col_value(row, BUSINESS_ALLOCATION) - d.TOTAL_ACTUALS

\* line 147 on one row, d its derived columns so far
capital_variance(row, d) == col_value(row, BUSINESS_ALLOCATION) - d.TOTAL_FORECASTS

\* lines 144-157
ComputeCapital ==
    /\ pc = "spend"
    /\ LET present == BUSINESS_ALLOCATION \in Range(columns)
           variance(r) == IF present THEN capital_variance(data[r], derived[r]) ELSE 0
           under(r) == IF present THEN underspend_of(variance(r)) ELSE 0
           over(r) == IF present THEN overspend_of(variance(r)) ELSE 0
       IN  /\ derived' = [r \in Rows |-> derived[r] @@
                 [CAPITAL_VARIANCE |-> variance(r),
                  CAPITAL_UNDERSPEND |-> under(r),
                  CAPITAL_OVERSPEND |-> over(r),
                  NET_REALLOCATION_AMOUNT |-> under(r) - over(r)]]
           /\ warnings' = IF present THEN warnings
                          ELSE warnings \cup {"BUSINESS_ALLOCATION not found"}
    /\ pc' = "capital"
    /\ UNCHANGED << current_year, current_month, uploaded_file, columns, data,
                    financial_cols_to_convert, monthly_actuals_cols,
                    monthly_forecasts_cols, monthly_plan_cols, ytd_actual_cols,
                    monthly_af_variance_cols >>
    /\ UNCHANGED << cache, session_vars >>

\* line 168 with the operands exchanged
af_variance_swapped(row, i) ==
    LET actual_col == monthly_name(current_year, i, << "A" >>)
        forecast_col == monthly_name(current_year, i, << "F" >>)
    IN  IF actual_col \in Range(columns) /\ forecast_col \in Range(columns)
        THEN col_value(row, forecast_col) - col_value(row, actual_col)
        ELSE 0

\* lines 163-174 for month i on one row: the value of the variance column.
\* No derived column is labelled like a monthly column, so membership in
\* df.columns is membership in the columns of the upload.
af_variance(row, i) ==
    LET actual_col == monthly_name(current_year, i, << "A" >>)
        forecast_col == monthly_name(current_year, i, << "F" >>)
    IN  IF actual_col \in Range(columns) /\ forecast_col \in Range(columns)
        THEN col_value(row, actual_col) - col_value(row, forecast_col)
        ELSE 0

\* line 179 without .abs()
RECURSIVE signed_sum(_, _)
signed_sum(f, idx) ==
    IF idx = {} THEN 0
    ELSE LET i == CHOOSE j \in idx : TRUE
         IN  f[i] + signed_sum(f, idx \ {i})

\* df[monthly_af_variance_cols].abs().sum(axis=1) on one row
RECURSIVE abs_sum(_, _)
abs_sum(f, idx) ==
    IF idx = {} THEN 0
    ELSE LET i == CHOOSE j \in idx : TRUE
         IN  abs(f[i]) + abs_sum(f, idx \ {i})

\* lines 159-184: the twelve variance columns, the spread score, the return;
\* st.cache_data stores what load_data returns
ComputeSpread ==
    /\ pc = "capital"
    /\ monthly_af_variance_cols' =
           [i \in 1..12 |-> monthly_name(current_year, i, af_variance_suffix)]
    /\ derived' = [r \in Rows |->
           LET variances == [i \in 1..12 |-> af_variance(data[r], i)]
           IN  derived[r] @@
                 [AF_VARIANCE |-> variances,
                  TOTAL_MONTHLY_SPREAD_SCORE |-> abs_sum(variances, 1..12)]]
    /\ pc' = "returned"
    /\ UNCHANGED << current_year, current_month, uploaded_file, columns, data,
                    financial_cols_to_convert, monthly_actuals_cols,
                    monthly_forecasts_cols, monthly_plan_cols, ytd_actual_cols,
                    warnings >>
    /\ cache' = cache \cup {uploaded_file}
    /\ UNCHANGED session_vars

-----------------------------------------------------------------------------
(* The script around load_data: the filters, the sections, the rankings,   *)
(* and the later runs of the script on the same upload                     *)

PROJECT_NAME == <<"P","R","O","J","E","C","T","_","N","A","M","E">>
PROJECT_MANAGER == <<"P","R","O","J","E","C","T","_","M","A","N","A","G","E","R">>
PORTFOLIO_OBS_LEVEL1 == <<"P","O","R","T","F","O","L","I","O","_","O","B","S","_","L","E","V","E","L","1">>
SUB_PORTFOLIO_OBS_LEVEL2 == <<"S","U","B","_","P","O","R","T","F","O","L","I","O","_","O","B","S","_","L","E","V","E","L","2">>
BRS_CLASSIFICATION == <<"B","R","S","_","C","L","A","S","S","I","F","I","C","A","T","I","O","N">>
FUND_DECISION == <<"F","U","N","D","_","D","E","C","I","S","I","O","N">>
All == <<"A","l","l">>

\* the keys of filter_columns, in their order
filter_columns ==
    << PORTFOLIO_OBS_LEVEL1, SUB_PORTFOLIO_OBS_LEVEL2, PROJECT_MANAGER,
       BRS_CLASSIFICATION, FUND_DECISION >>

\* the subheaders of the sections, in the order the script reaches them
Sections ==
    << "Key Metrics Overview", "Project Details", "Monthly Spend Trends",
       "Variance Analysis", "Capital Allocation Breakdown",
       "Detailed Project Financials", "Project Manager Performance",
       "Project Performance" >>

PleaseUpload == "Please upload a CSV file with valid data to proceed."
NoMatch == "No projects match the selected filters. Please adjust your selections."

\* the rows head(5) and tail(5) keep
TopN == 5

\* a table the script takes for non-empty whatever it holds
df_never_empty == FALSE

\* df.empty
df_empty == NumRows = 0

\* col in df.columns
in_columns(name) == name \in Range(columns)

\* df[name] on row r, for a label that one column carries
text_cell(r, name) == data[r][CHOOSE i \in positions(name) : TRUE]

\* ['All'] + df[col_name].dropna().unique().tolist(), as a set; 'All' alone
\* for a column the table has not
options(col_name) ==
    IF in_columns(col_name)
    THEN {All} \cup {text_cell(r, col_name).s :
                        r \in {q \in Rows : text_cell(q, col_name).k = "str"}}
    ELSE {All}

\* what the selectboxes can hold: one option per filter column
selections ==
    {s \in [1..Len(filter_columns) -> UNION {options(filter_columns[k]) :
                                                k \in 1..Len(filter_columns)}] :
        \A k \in 1..Len(filter_columns) : s[k] \in options(filter_columns[k])}

\* the labels of S in table order
RECURSIVE in_order(_)
in_order(S) ==
    IF S = {} THEN << >>
    ELSE LET first == CHOOSE r \in S : \A q \in S : r <= q
         IN  << first >> \o in_order(S \ {first})

\* the row labels the filters keep, in table order
apply_filters(selected) ==
    in_order({r \in Rows : \A k \in 1..Len(filter_columns) :
                 (selected[k] # All /\ in_columns(filter_columns[k]))
                     => text_cell(r, filter_columns[k]) = Str(selected[k])})

\* the script going on with no row left
filter_never_stops(rows) == "filtered"

\* if filtered_df.empty: st.warning(...); st.stop()
after_filters(rows) == IF Len(rows) = 0 THEN "stopped" ELSE "filtered"

\* lines 198-232 and 837-838: the selectboxes, the filtering, the stop on an
\* empty result; the warning of the else branch for an empty table
ApplyFilters ==
    /\ pc \in {"returned", "cached"}
    /\ IF df_empty
       THEN /\ pc' = "done"
            /\ rendered' = << PleaseUpload >>
            /\ UNCHANGED << selected_filters, filtered_df >>
       ELSE \E selected \in selections :
               LET rows == apply_filters(selected)
               IN  /\ selected_filters' = selected
                   /\ filtered_df' = rows
                   /\ pc' = after_filters(rows)
                   /\ rendered' = IF Len(rows) = 0 THEN << NoMatch >> ELSE << >>
    /\ UNCHANGED << current_year, current_month, uploaded_file, columns, data,
                    financial_cols_to_convert, monthly_actuals_cols,
                    monthly_forecasts_cols, monthly_plan_cols, ytd_actual_cols,
                    monthly_af_variance_cols, derived, warnings, cache,
                    reruns_left, top5_managers, bottom5_managers,
                    top5_projects, bottom5_projects >>

\* The section that indexes the table by PROJECT_NAME without asking whether
\* the column is there, 0 when it is there: the bar charts of the variance
\* analysis (x='PROJECT_NAME', drawn when a variance column exists; coerced,
\* it is never all null) and, reached otherwise, line 479.
raising_section ==
    IF in_columns(PROJECT_NAME) THEN 0
    ELSE IF in_columns(QE_FORECAST_VS_QE_PLAN) \/ in_columns(FORECAST_VS_BA) THEN 4
    ELSE 6

\* DataFrame.head(n) and tail(n) on a sequence of rows
head(seq, n) == SubSeq(seq, 1, IF Len(seq) < n THEN Len(seq) ELSE n)
tail(seq, n) == SubSeq(seq, IF Len(seq) < n THEN 1 ELSE Len(seq) - n + 1, Len(seq))

\* sort_values on one key with the default kind='quicksort', which is not a
\* stable sort: every order of the labels S that is sorted by key
RECURSIVE sort_values(_, _, _)
sort_values(S, key, ascending) ==
    IF S = {} THEN { << >> }
    ELSE UNION { { << m >> \o t : t \in sort_values(S \ {m}, key, ascending) } :
                   m \in {x \in S : \A y \in S :
                            IF ascending THEN key[x] <= key[y] ELSE key[x] >= key[y]} }

\* the column TOTAL_MONTHLY_SPREAD_SCORE
scores == [r \in Rows |-> derived[r].TOTAL_MONTHLY_SPREAD_SCORE]

\* the ranking of line 573 with ascending=False
project_ranking_descending(rows) == sort_values(Range(rows), scores, FALSE)

\* filtered_df.sort_values('TOTAL_MONTHLY_SPREAD_SCORE')
project_ranking(rows) == sort_values(Range(rows), scores, TRUE)

Ascii ==
    << " ","!","#","$","%","&","'","(",")","*","+",",","-",".","/",
       "0","1","2","3","4","5","6","7","8","9",":",";","<","=",">","?",
       "@","A","B","C","D","E","F","G","H","I","J","K","L","M","N","O",
       "P","Q","R","S","T","U","V","W","X","Y","Z","[","]","^","_",
       "a","b","c","d","e","f","g","h","i","j","k","l","m","n","o",
       "p","q","r","s","t","u","v","w","x","y","z","{","|","}","~" >>

\* the place of a character in the order of the code points (the quote, the
\* backslash and the backquote left out)
ord(c) == CHOOSE i \in 1..Len(Ascii) : Ascii[i] = c

\* a < b for two texts
RECURSIVE text_less(_, _)
text_less(a, b) ==
    IF Len(b) = 0 THEN FALSE
    ELSE IF Len(a) = 0 THEN TRUE
    ELSE IF a[1] = b[1] THEN text_less(Tail(a), Tail(b))
    ELSE ord(a[1]) < ord(b[1])

RECURSIVE sum_rows(_, _)
sum_rows(key, S) ==
    IF S = {} THEN 0
    ELSE LET r == CHOOSE q \in S : TRUE
         IN  key[r] + sum_rows(key, S \ {r})

\* filtered_df.groupby('PROJECT_MANAGER').agg(...).reset_index(): one row per
\* manager, the managers ascending, the rows without a manager left out
pm_groups(rows) ==
    LET managed == {r \in Range(rows) : text_cell(r, PROJECT_MANAGER).k = "str"}
        managers == {text_cell(r, PROJECT_MANAGER).s : r \in managed}
        place(m) == Cardinality({o \in managers : text_less(o, m)}) + 1
    IN  [i \in 1..Cardinality(managers) |->
            LET m == CHOOSE o \in managers : place(o) = i
                group == {r \in managed : text_cell(r, PROJECT_MANAGER).s = m}
            IN  [PROJECT_MANAGER |-> m,
                 Total_Monthly_Spread |-> sum_rows(scores, group),
                 Number_of_Projects |->
                     Cardinality({r \in group : text_cell(r, PROJECT_NAME).k # "nan"})]]

\* lines 234-589: the sections in order, up to the one that raises; the top
\* and bottom five of the managers and of the projects.  The project selector
\* of line 480 is left at 'Select a Project'; the report of lines 757-801
\* repeats the two rankings with the same calls.
RenderSections ==
    /\ pc = "filtered"
    /\ IF raising_section # 0
       THEN /\ pc' = "view_raised"
            /\ rendered' = SubSeq(Sections, 1, raising_section - 1)
            /\ UNCHANGED << top5_managers, bottom5_managers,
                            top5_projects, bottom5_projects >>
       ELSE /\ pc' = "rendered"
            /\ rendered' = Sections
            /\ IF in_columns(PROJECT_MANAGER)
               THEN LET groups == pm_groups(filtered_df)
                        totals == [i \in 1..Len(groups) |-> groups[i].Total_Monthly_Spread]
                    IN  \E pm_performance \in sort_values(1..Len(groups), totals, TRUE) :
                        \E bottom \in sort_values(Range(tail(pm_performance, TopN)),
                                                  totals, FALSE) :
                            /\ top5_managers' =
                                   [i \in 1..Len(head(pm_performance, TopN)) |->
                                       groups[pm_performance[i]]]
                            /\ bottom5_managers' =
                                   [i \in 1..Len(bottom) |-> groups[bottom[i]]]
               ELSE /\ top5_managers' = << >>
                    /\ bottom5_managers' = << >>
            /\ \E project_performance_ranked \in project_ranking(filtered_df) :
               \E bottom \in sort_values(Range(tail(project_performance_ranked, TopN)),
                                         scores, FALSE) :
                   /\ top5_projects' = head(project_performance_ranked, TopN)
                   /\ bottom5_projects' = bottom
    /\ UNCHANGED << current_year, current_month, uploaded_file, columns, data,
                    financial_cols_to_convert, monthly_actuals_cols,
                    monthly_forecasts_cols, monthly_plan_cols, ytd_actual_cols,
                    monthly_af_variance_cols, derived, warnings, cache,
                    reruns_left, selected_filters, filtered_df >>

\* datetime.now() of a later run: still the same month, or the next one
later_clocks ==
    { << current_year, current_month >>,
      IF current_month = 12 THEN << current_year + 1, 1 >>
      ELSE << current_year, current_month + 1 >> }

\* the positions at which a run of the script is over
RunEnds == {"raised", "done", "stopped", "rendered", "view_raised"}

\* A later run of the script on the same upload (lines 11-13, 193-196): the
\* globals are read from the clock again; st.cache_data keys the call on the
\* upload alone and hands a stored table back without running load_data,
\* replaying its messages; nothing is stored for a call that raised.
Rerun ==
    /\ pc \in RunEnds
    /\ reruns_left > 0
    /\ reruns_left' = reruns_left - 1
    /\ \E clock \in later_clocks :
          /\ current_year' = clock[1]
          /\ current_month' = clock[2]
    /\ selected_filters' = << >>
    /\ filtered_df' = << >>
    /\ rendered' = << >>
    /\ top5_managers' = << >>
    /\ bottom5_managers' = << >>
    /\ top5_projects' = << >>
    /\ bottom5_projects' = << >>
    /\ IF uploaded_file \in cache
       THEN /\ pc' = "cached"
            /\ UNCHANGED << columns, data, financial_cols_to_convert,
                            monthly_actuals_cols, monthly_forecasts_cols,
                            monthly_plan_cols, ytd_actual_cols,
                            monthly_af_variance_cols, derived, warnings >>
       ELSE /\ pc' = "start"
            /\ columns' = << >>
            /\ data' = << >>
            /\ financial_cols_to_convert' = << >>
            /\ monthly_actuals_cols' = << >>
            /\ monthly_forecasts_cols' = << >>
            /\ monthly_plan_cols' = << >>
            /\ ytd_actual_cols' = << >>
            /\ monthly_af_variance_cols' = << >>
            /\ derived' = << >>
            /\ warnings' = {}
    /\ UNCHANGED << uploaded_file, cache >>

Next ==
    \/ ReadCsv
    \/ CleanColumnNames
    \/ Deduplicate
    \/ ConvertFinancial
    \/ ClassifyMonthly
    \/ ComputeTotals
    \/ ComputeSpend
    \/ ComputeCapital
    \/ ComputeSpread
    \/ ApplyFilters
    \/ RenderSections
    \/ Rerun

-----------------------------------------------------------------------------
(* The uploads the runs start from                                         *)

\* the sequences over S of length at most n
SeqsUpTo(S, n) == UNION {[1..k -> S] : k \in 0..n}

\* the sequences without repetition: read_csv hands out distinct labels
Distinct(seq) == \A i, j \in 1..Len(seq) : i # j => seq[i] # seq[j]

\* the elements of pool at the positions idx, in pool order
RECURSIVE pick(_, _)
pick(pool, idx) ==
    IF idx = {} THEN << >>
    ELSE LET i == CHOOSE j \in idx : \A k \in idx : j <= k
         IN  << pool[i] >> \o pick(pool, idx \ {i})

Table(header, rows) == [ok |-> TRUE, header |-> header, rows |-> rows]
Unreadable == [ok |-> FALSE, header |-> << >>, rows |-> << >>]

\* Header family: raw headers that clean to the same name, that look like a
\* suffixed repeat, of another year, of a bad month or suffix; one row of "7"
HeaderPool ==
    { <<"2","0","2","5","_","0","1","_","A">>,
      <<"2","0","2","5","-","0","1","-","a">>,
      <<"2","0","2","5","_","0","1","_","A","_","1">>,
      <<"2","0","2","5","_","0","1","_","F">>,
      <<"2","0","2","5","_","0","2","_","C","P">>,
      <<"2","0","2","4","_","0","1","_","A">>,
      <<"2","0","2","5","_","1","_","A">>,
      <<"2","0","2","5","_","0","1","_","X">>,
      <<"2","0","2","5",".","0","1",".","X">>,
      <<"2","0","2","5","_","0","1","_","X","_","1">>,
      <<"R","a","t","e">>,
      <<"r","a","t","e">>,
      <<" ","R","A","T","E"," ">> }

HeaderFiles ==
    { Table(h, << [i \in 1..Len(h) |-> << "7" >>] >>) :
        h \in {s \in SeqsUpTo(HeaderPool, MaxCols) : Distinct(s)} }

HeaderYears == {2025}

\* Metrics family: the monthly columns of two months, the allocation, a column
\* of another year; one row of amounts
DataPool ==
    << <<"2","0","2","5","_","0","1","_","A">>,
       <<"2","0","2","5","_","0","1","_","F">>,
       <<"2","0","2","5","_","0","2","_","A">>,
       <<"2","0","2","5","_","0","2","_","F">>,
       <<"2","0","2","5","_","0","1","_","C","P">>,
       <<"2","0","2","4","_","0","1","_","A">>,
       <<"B","u","s","i","n","e","s","s"," ","A","l","l","o","c","a","t","i","o","n">> >>

DataCells == { <<"1","0","0">>, <<"9","0">> }

DataHeaders ==
    { pick(DataPool, idx) :
        idx \in {s \in SUBSET (1..Len(DataPool)) : Cardinality(s) <= MaxDataCols} }

\* the examples of the specification: pairs (100,90),(110,100); allocation
\* 1000 against forecasts 1,300 and 800
ExampleFiles ==
    { Table(<< DataPool[1], DataPool[2], DataPool[3], DataPool[4] >>,
            << << <<"1","0","0">>, <<"9","0">>, <<"1","1","0">>, <<"1","0","0">> >> >>),
      Table(<< DataPool[7], DataPool[2] >>,
            << << <<"1","0","0","0">>, <<"1",",","3","0","0">> >>,
               << <<"1","0","0","0">>, <<"8","0","0">> >> >>) }

DataFiles ==
    { Table(h, << cells >>) :
        h \in DataHeaders, cells \in SeqsUpTo(DataCells, MaxDataCols) }

\* Cell family: a financial column and a text column, one row, every text
\* over the cell alphabet up to MaxCellLen in the financial column
CellAlphabet == {"1", "5", ",", ".", " ", "-", "x"}

CellHeader == << DataPool[7], <<"N","o","t","e","s">> >>

CellFiles ==
    { Table(CellHeader, << << t, <<"x">> >> >>) : t \in SeqsUpTo(CellAlphabet, MaxCellLen) }
    \cup { Table(CellHeader, << << <<"1",",","2","3","4",".","5","0">>, << >> >>,
                                << << >>, <<"x">> >> >>) }

\* Name family: one column whose raw header is any non-empty text over the
\* name alphabet up to MaxNameLen, or one of the longer examples
NameAlphabet == {"a", "B", "1", " ", "_", ".", "-", "#"}

NameExamples ==
    { <<"P","r","o","j","e","c"," ","T","I","D">>,
      <<" ","R","a","t","e","-","1"," ">>,
      <<"U","n","n","a","m","e","d",":"," ","0">>,
      <<"a","+","b">>,
      <<"\t","a","\t","b"," ">>,
      <<"a","-",".","b","#","c">> }

NameFiles ==
    { Table(<< h >>, << << << "7" >> >> >>) :
        h \in (SeqsUpTo(NameAlphabet, MaxNameLen) \ { << >> }) \cup NameExamples }

\* Selection family: names on the allow-list, monthly names of the current
\* year, of another year of the century and of years outside it, a suffixed
\* name, a repeat that deduplication suffixes; one row of "1,5"
SelectPool ==
    { <<"B","u","s","i","n","e","s","s"," ","A","l","l","o","c","a","t","i","o","n">>,
      <<"Y","E"," ","R","u","n">>,
      <<"N","o","t","e","s">>,
      <<"2","0","2","5","_","0","1","_","A">>,
      <<"2","0","2","5","-","0","1","-","A">>,
      <<"2","0","2","5","_","0","1","_","A","_","1">>,
      <<"2","0","2","4","_","0","1","_","F">>,
      <<"2","1","0","0","_","0","1","_","A">>,
      <<"1","9","9","9","_","0","1","_","C","P">>,
      <<"2","0","2","5","_","1","_","A">> }

SelectFiles ==
    { Table(h, << [i \in 1..Len(h) |-> <<"1",",","5">>] >>) :
        h \in {s \in SeqsUpTo(SelectPool, MaxSelectCols) : Distinct(s)} }

SelectYears == {2025, 2100}

\* View family: two projects, the actuals of two months, and any of the six
\* descriptor columns; the cells of a column are fixed
ViewColumns ==
    << [header |-> <<"P","r","o","j","e","c","t"," ","N","a","m","e">>,
        cells |-> << << "p", "1" >>, << "p", "2" >> >>],
      [header |-> <<"P","r","o","j","e","c","t"," ","M","a","n","a","g","e","r">>,
        cells |-> << << "a" >>, << "b" >> >>],
      [header |-> <<"P","o","r","t","f","o","l","i","o"," ","O","B","S"," ","L","e","v","e","l","1">>,
        cells |-> << << "x" >>, << "y" >> >>],
      [header |-> <<"S","u","b"," ","P","o","r","t","f","o","l","i","o"," ","O","B","S"," ","L","e","v","e","l","2">>,
        cells |-> << << "y" >>, << "x" >> >>],
      [header |-> <<"B","R","S"," ","C","l","a","s","s","i","f","i","c","a","t","i","o","n">>,
        cells |-> << << "x" >>, << "x" >> >>],
      [header |-> <<"F","u","n","d"," ","D","e","c","i","s","i","o","n">>,
        cells |-> << << "x" >>, << >> >>],
      [header |-> <<"2","0","2","5","_","0","1","_","A">>,
        cells |-> << << "1" >>, << "2" >> >>],
      [header |-> <<"2","0","2","5","_","0","2","_","A">>,
        cells |-> << << "3" >>, << "4" >> >>] >>

ViewFiles ==
    { LET cols == pick(ViewColumns, idx \cup {7, 8})
      IN  Table([i \in 1..Len(cols) |-> cols[i].header],
                [r \in 1..2 |-> [i \in 1..Len(cols) |-> cols[i].cells[r]]]) :
        idx \in SUBSET (1..6) }

\* Ranking family: up to MaxRankRows projects of two managers, one pair of
\* monthly columns; the scores fall with the row, two neighbours may tie
RankHeader ==
    << <<"P","r","o","j","e","c","t"," ","N","a","m","e">>,
       <<"P","r","o","j","e","c","t"," ","M","a","n","a","g","e","r">>,
       <<"2","0","2","5","_","0","1","_","A">>,
       <<"2","0","2","5","_","0","1","_","F">> >>

RankFiles ==
    { Table(RankHeader,
            [r \in 1..n |->
                << << "p", Digit[r + 1] >>,
                   IF r % 2 = 1 THEN << "a" >> ELSE << "b" >>,
                   IntToStr(n - r + bits[r]),
                   << "0" >> >>]) :
        n \in 1..MaxRankRows, bits \in [1..MaxRankRows -> {0, 1}] }

\* a run of the script on each upload of files or on an unreadable one; the
\* uploads of revisited are run again, up to MaxReruns times
InitWith(files, years, months, revisited) ==
    /\ pc = "start"
    /\ uploaded_file \in files \cup {Unreadable}
    /\ reruns_left \in IF uploaded_file \in revisited THEN 0..MaxReruns ELSE {0}
    /\ cache = {}
    /\ selected_filters = << >>
    /\ filtered_df = << >>
    /\ rendered = << >>
    /\ top5_managers = << >>
    /\ bottom5_managers = << >>
    /\ top5_projects = << >>
    /\ bottom5_projects = << >>
    /\ current_year \in years
    /\ current_month \in months
    /\ columns = << >>
    /\ data = << >>
    /\ financial_cols_to_convert = << >>
    /\ monthly_actuals_cols = << >>
    /\ monthly_forecasts_cols = << >>
    /\ monthly_plan_cols = << >>
    /\ ytd_actual_cols = << >>
    /\ monthly_af_variance_cols = << >>
    /\ derived = << >>
    /\ warnings = {}

\* the metrics family, in every month of 2025
Init ==
    InitWith({f \in DataFiles : Len(f.rows[1]) = Len(f.header)} \cup ExampleFiles,
             {2025}, 1..12, ExampleFiles)

InitHeaders ==
    InitWith(HeaderFiles, HeaderYears, {6}, {f \in HeaderFiles : Len(f.header) = 1})

InitCells ==
    InitWith(CellFiles, {2025}, {6}, {f \in CellFiles : Len(f.rows) = 2})

InitNames ==
    InitWith(NameFiles, {2025}, {6}, {f \in NameFiles : f.header[1] \in NameExamples})

InitSelect ==
    InitWith(SelectFiles, SelectYears, {6}, {f \in SelectFiles : Len(f.header) = 1})

\* the view family at the start and at the end of the year, every session run again
InitViews == InitWith(ViewFiles, {2025}, {1, 12}, ViewFiles \cup {Unreadable})

InitRank == InitWith(RankFiles, {2025}, {6}, {f \in RankFiles : Len(f.rows) = 1})

Spec == Init /\ [][Next]_vars

SpecHeaders == InitHeaders /\ [][Next]_vars

SpecCells == InitCells /\ [][Next]_vars

SpecNames == InitNames /\ [][Next]_vars

SpecSelect == InitSelect /\ [][Next]_vars

SpecViews == InitViews /\ [][Next]_vars

SpecRank == InitRank /\ [][Next]_vars

-----------------------------------------------------------------------------
(* Properties of the Column Normalizer                                     *)

\* the positions of the run
AfterDedup ==
    {"deduped", "converted", "classified", "totals", "spend", "capital", "raised"}
AfterClassify == {"classified", "totals", "spend", "capital"}
Loaded == pc = "returned" /\ uploaded_file.ok

\* the canonical names of the raw headers
canonical == [i \in 1..Len(uploaded_file.header) |-> clean_col_name(uploaded_file.header[i])]

\* how many headers before i have the canonical name of header i
repeats_before(canon, i) == Cardinality({j \in 1..(i - 1) : canon[j] = canon[i]})

\* C1: after deduplication the column names are as many as the raw headers,
\* name i comes from header i, and no name occurs twice.
C1_NamesUnique ==
    (pc \in AfterDedup \/ Loaded) =>
        LET canon == canonical
        IN  /\ Len(columns) = Len(canon)
            /\ \A i \in 1..Len(columns) :
                  SubSeq(columns[i], 1, Len(canon[i])) = canon[i]
            /\ Distinct(columns)

\* C10: the first occurrence of a canonical name is kept as it is and its
\* N-th repeat, counted over the whole header sequence, is the name with _N.
C10_OccurrenceCounter ==
    (pc \in AfterDedup \/ Loaded) =>
        LET canon == canonical
        IN  /\ Len(columns) = Len(canon)
            /\ \A i \in 1..Len(columns) :
                  LET n == repeats_before(canon, i)
                  IN  columns[i] = IF n = 0 THEN canon[i]
                                   ELSE canon[i] \o << "_" >> \o IntToStr(n)

\* a name kept, then its first and its second repeat
C10_Witness ==
    /\ pc = "deduped"
    /\ columns = << RATE, RATE \o << "_", "1" >>, RATE \o << "_", "2" >> >>

\* a name that occurs once, between a name and its repeat, is not changed
C10_WitnessOnce ==
    /\ pc = "deduped"
    /\ columns = << RATE, <<"2","0","2","5","_","0","1","_","F">>, RATE \o << "_", "1" >> >>

-----------------------------------------------------------------------------
(* Properties of the Monthly Column Classifier                             *)

\* name is <year>_<MM>_<suffix> for some two digits MM
ExactMonthly(name, year, suffix) ==
    LET y == IntToStr(year)
    IN  /\ Len(name) = Len(y) + 4 + Len(suffix)
        /\ \E a, b \in DigitChars : name = y \o << "_", a, b, "_" >> \o suffix

-----------------------------------------------------------------------------
(* Properties of the Financial Coercer                                     *)

\* the text of a raw field without its commas and its outer whitespace
bare_text(raw) ==
    LET kept == SelectSeq(raw, LAMBDA c : c # ",")
        inner == {i \in 1..Len(kept) : kept[i] \notin Whitespace}
    IN  IF inner = {} THEN << >>
        ELSE SubSeq(kept, CHOOSE i \in inner : \A j \in inner : i <= j,
                          CHOOSE i \in inner : \A j \in inner : i >= j)

\* t is a number: a sign or none, then digits with at most one point among
\* them and one digit at least
reads_as_number(t) ==
    \E sign \in {<< >>, << "-" >>}, n \in 0..Len(t), m \in 0..Len(t) :
        /\ n + m >= 1
        /\ \E mid \in {<< >>, << "." >>} :
              /\ Len(t) = Len(sign) + n + Len(mid) + m
              /\ SubSeq(t, 1, Len(sign)) = sign
              /\ SubSeq(t, Len(sign) + n + 1, Len(sign) + n + Len(mid)) = mid
              /\ \A i \in 1..Len(t) :
                    (i > Len(sign) /\ (i <= Len(sign) + n \/ i > Len(sign) + n + Len(mid)))
                        => IsDigit(t[i])

\* the number a text reads as, in 1/Scale units: its digits as one integer,
\* scaled down by the digits after the point
number_read(t) ==
    LET digits == SelectSeq(t, IsDigit)
        after == IF \E i \in 1..Len(t) : t[i] = "."
                 THEN Len(t) - (CHOOSE i \in 1..Len(t) : t[i] = ".")
                 ELSE 0
        mag == (StrToInt(digits) * Scale) \div (10 ^ after)
    IN  IF t[1] = "-" THEN 0 - mag ELSE mag

\* C3: every cell of a column selected as financial is a number: the number
\* its raw text reads as without commas and outer whitespace, and 0 for a
\* missing, empty or whitespace-only cell and for a text that is no number.
C3_CoercedValue ==
    (pc \in {"converted"} \cup AfterClassify \/ Loaded) =>
        \A r \in Rows : \A i \in 1..Len(columns) :
            columns[i] \in Range(financial_cols_to_convert) =>
                LET t == bare_text(uploaded_file.rows[r][i])
                IN  /\ data[r][i].k = "num"
                    /\ data[r][i].v = IF reads_as_number(t) THEN number_read(t) ELSE 0

\* "1,234.50" coerced to 1234.50 and the missing cell below it to 0, the text
\* column beside them untouched
C3_Witness ==
    /\ pc = "converted"
    /\ NumRows = 2
    /\ uploaded_file.rows[1][1] = <<"1",",","2","3","4",".","5","0">>
    /\ data[1][1] = Num(1234 * Scale + Scale \div 2)
    /\ uploaded_file.rows[2][1] = << >>
    /\ data[2][1] = Num(0)
    /\ data[2][2] = Str(<< "x" >>)

-----------------------------------------------------------------------------
(* Properties of the Metrics Deriver                                       *)

\* the sum of f over the set S
RECURSIVE Sum(_, _)
Sum(f, S) ==
    IF S = {} THEN 0
    ELSE LET x == CHOOSE y \in S : TRUE
         IN  f[x] + Sum(f, S \ {x})

\* the numbers of row r, column by column
amounts(r) == [i \in 1..Len(columns) |-> data[r][i].v]

\* the number of row r in the one column called name
amount(r, name) == data[r][CHOOSE i \in 1..Len(columns) : columns[i] = name].v

has_column(name) == \E i \in 1..Len(columns) : columns[i] = name

actual_name(m) == IntToStr(current_year) \o << "_" >> \o Format02d(m) \o << "_", "A" >>
forecast_name(m) == IntToStr(current_year) \o << "_" >> \o Format02d(m) \o << "_", "F" >>
variance_name(m) ==
    IntToStr(current_year) \o << "_" >> \o Format02d(m)
        \o << "_","A","F","_","V","A","R","I","A","N","C","E" >>

\* the months whose actual and forecast columns both exist
PairedMonths == {m \in 1..12 : has_column(actual_name(m)) /\ has_column(forecast_name(m))}

\* |actual - forecast| of row r, month by month over the paired months
spreads(r) ==
    [m \in PairedMonths |->
        LET d == amount(r, actual_name(m)) - amount(r, forecast_name(m))
        IN  IF d < 0 THEN 0 - d ELSE d]

C5_VarianceOnlyWhenPaired ==
    Loaded =>
        \A m \in 1..12 :
            variance_name(m) \in Range(monthly_af_variance_cols) <=> m \in PairedMonths

\* C5 amended: the variance column of each of the twelve months is added; it
\* is actual - forecast for a paired month and 0 for any other month.
C5_VarianceOfEveryMonth ==
    Loaded =>
        /\ monthly_af_variance_cols = [m \in 1..12 |-> variance_name(m)]
        /\ \A r \in Rows : \A m \in 1..12 :
              derived[r].AF_VARIANCE[m] =
                  IF m \in PairedMonths
                  THEN amount(r, actual_name(m)) - amount(r, forecast_name(m))
                  ELSE 0

\* month 01 paired with a variance of 90 - 100, month 02 with an actual of 100
\* and no forecast: its variance column holds 0
C5_Witness ==
    /\ Loaded
    /\ NumRows = 1
    /\ PairedMonths = {1}
    /\ derived[1].AF_VARIANCE[1] = 0 - 10 * Scale
    /\ has_column(actual_name(2)) /\ amount(1, actual_name(2)) = 100 * Scale
    /\ derived[1].AF_VARIANCE[2] = 0
    /\ variance_name(2) \in Range(monthly_af_variance_cols)

ForecastPositions ==
    {i \in 1..Len(columns) : ExactMonthly(columns[i], current_year, << "F" >>)}

\* C7: the variance is the allocation less the sum of the forecast columns of
\* the current year; without an allocation column the variance, underspend
\* and overspend are 0 and a warning is issued, not an error.
C7_CapitalVariance ==
    (pc = "capital" \/ Loaded) =>
        IF has_column(BUSINESS_ALLOCATION)
        THEN \A r \in Rows :
                derived[r].CAPITAL_VARIANCE =
                    amount(r, BUSINESS_ALLOCATION) - Sum(amounts(r), ForecastPositions)
        ELSE /\ "BUSINESS_ALLOCATION not found" \in warnings
             /\ \A r \in Rows :
                   /\ derived[r].CAPITAL_VARIANCE = 0
                   /\ derived[r].CAPITAL_UNDERSPEND = 0
                   /\ derived[r].CAPITAL_OVERSPEND = 0

\* an allocation of 90 against two forecast columns of 100 and 90 and an
\* actuals column of 100: a variance of -100
C7_Witness ==
    /\ Loaded
    /\ NumRows = 1
    /\ has_column(BUSINESS_ALLOCATION) /\ amount(1, BUSINESS_ALLOCATION) = 90 * Scale
    /\ Cardinality(ForecastPositions) = 2
    /\ Sum(amounts(1), ForecastPositions) = 190 * Scale
    /\ derived[1].TOTAL_ACTUALS = 100 * Scale
    /\ derived[1].CAPITAL_VARIANCE = 0 - 100 * Scale

\* the positions of the columns a list names
ListedPositions(cols) == {i \in 1..Len(columns) : \E k \in 1..Len(cols) : cols[k] = columns[i]}

\* C8: each total is the sum of the row over exactly the columns of its
\* list, and 0 for an empty list; the run has not raised.
C8_TotalsOverLists ==
    (pc \in {"totals", "spend", "capital"} \/ Loaded) =>
        \A r \in Rows :
            /\ derived[r].TOTAL_ACTUALS
                  = Sum(amounts(r), ListedPositions(monthly_actuals_cols))
            /\ derived[r].TOTAL_FORECASTS
                  = Sum(amounts(r), ListedPositions(monthly_forecasts_cols))
            /\ derived[r].TOTAL_CAPITAL_PLAN
                  = Sum(amounts(r), ListedPositions(monthly_plan_cols))

\* two actuals columns summed to 190, one forecast column of 100, no plan
\* column and a plan total of 0
C8_Witness ==
    /\ pc = "totals"
    /\ NumRows = 1
    /\ Len(monthly_actuals_cols) = 2 /\ derived[1].TOTAL_ACTUALS = 190 * Scale
    /\ Len(monthly_forecasts_cols) = 1 /\ derived[1].TOTAL_FORECASTS = 100 * Scale
    /\ Len(monthly_plan_cols) = 0 /\ derived[1].TOTAL_CAPITAL_PLAN = 0

\* the positions of the actuals columns of the current year up to month m
YtdPositions(m) ==
    {i \in 1..Len(columns) :
        \E a, b \in 1..10 :
            /\ columns[i] = IntToStr(current_year) \o << "_", Digit[a], Digit[b], "_", "A" >>
            /\ 10 * (a - 1) + (b - 1) <= m}

\* C9: the year-to-date spend is the sum of the actuals columns of the current
\* year whose month is at most the current month, and of no other column.
C9_YearToDate ==
    (pc \in {"spend", "capital"} \/ Loaded) =>
        \A r \in Rows :
            derived[r].SUM_ACTUAL_SPEND_YTD = Sum(amounts(r), YtdPositions(current_month))

\* in month 1, the actual of month 01 counted and those of month 02 and of
\* 2024 left out
C9_Witness ==
    /\ pc = "spend"
    /\ NumRows = 1
    /\ current_month = 1
    /\ has_column(actual_name(1)) /\ has_column(actual_name(2))
    /\ has_column(<<"2","0","2","4","_","0","1","_","A">>)
    /\ amount(1, actual_name(1)) = 90 * Scale
    /\ derived[1].SUM_ACTUAL_SPEND_YTD = 90 * Scale
    /\ derived[1].TOTAL_ACTUALS = 190 * Scale

-----------------------------------------------------------------------------
(* Properties of the canonical name                                        *)

\* the characters clean_col_name turns into an underscore, and the underscore
Separators == {" ", "+", ".", "-", "_"}

Alphanumeric ==
    {LowerCase[i] : i \in 1..26} \cup {UpperCase[i] : i \in 1..26} \cup DigitChars

\* the text between the first and the last non-whitespace character
trimmed(s) ==
    LET solid == {i \in 1..Len(s) : s[i] \notin Whitespace}
    IN  IF solid = {} THEN << >>
        ELSE SubSeq(s, CHOOSE i \in solid : \A j \in solid : i <= j,
                       CHOOSE i \in solid : \A j \in solid : i >= j)

\* one pass over s from position i: a character of gaps opens an underscore
\* (none at the start when edges is FALSE, never two in a row), any other
\* character is uppercased; a closing underscore goes when edges is FALSE
RECURSIVE squeeze(_, _, _, _, _)
squeeze(s, i, out, gaps, edges) ==
    IF i > Len(s)
    THEN IF ~edges /\ Len(out) > 0 /\ out[Len(out)] = "_"
         THEN SubSeq(out, 1, Len(out) - 1) ELSE out
    ELSE IF gaps[s[i]]
    THEN squeeze(s, i + 1,
                 IF (Len(out) = 0 /\ ~edges) \/ (Len(out) > 0 /\ out[Len(out)] = "_")
                 THEN out ELSE Append(out, "_"),
                 gaps, edges)
    ELSE squeeze(s, i + 1, Append(out, upper_char(s[i])), gaps, edges)

\* the corrections table, entry by entry
corrected(name) ==
    CASE name = PROJEC_TID -> PROJECT_ID
      [] name = INI_MATIVE_PROGRAM -> INITIATIVE_PROGRAM
      [] name = ALL_PRIOR_YEARS_A -> ALL_PRIOR_YEARS_ACTUALS
      [] name = C_URRENT_EAC -> CURRENT_EAC
      [] name = RATE_1 -> RATE_SUPPLEMENTARY
      [] OTHER -> name

no_repeated_underscore(name) ==
    \A i \in 1..(Len(name) - 1) : ~(name[i] = "_" /\ name[i + 1] = "_")

\* C11 as the specification words it: the canonical name is the uppercased
\* header with every run of non-alphanumeric characters collapsed to one
\* underscore, then corrected; it has only uppercase letters, digits and
\* non-repeated underscores.
C11_AlphanumericRuns ==
    pc = "cleaned" =>
        \A i \in 1..Len(columns) :
            LET raw == uploaded_file.header[i]
            IN  /\ columns[i] = corrected(squeeze(raw, 1, << >>,
                                    [c \in Range(raw) |-> c \notin Alphanumeric], TRUE))
                /\ \A k \in 1..Len(columns[i]) :
                      columns[i][k] \in {UpperCase[j] : j \in 1..26} \cup DigitChars \cup {"_"}
                /\ no_repeated_underscore(columns[i])

\* C11: the canonical name is the header without its surrounding whitespace,
\* with every run of spaces, plus signs, periods, hyphens and underscores
\* turned into one underscore, none at either end, uppercased, then corrected;
\* every other character is kept, so the name has no space, plus sign,
\* period, hyphen or lowercase letter, no repeated and no outer underscore.
C11_CanonicalName ==
    pc = "cleaned" =>
        \A i \in 1..Len(columns) :
            LET raw == trimmed(uploaded_file.header[i])
                name == columns[i]
            IN  /\ name = corrected(squeeze(raw, 1, << >>,
                              [c \in Range(raw) |-> c \in Separators], FALSE))
                /\ \A k \in 1..Len(name) :
                      name[k] \notin {" ", "+", ".", "-"} \cup {LowerCase[j] : j \in 1..26}
                /\ no_repeated_underscore(name)
                /\ Len(name) > 0 => name[1] # "_" /\ name[Len(name)] # "_"

\* a hyphen and a period in a row give one underscore, the '#' stays
C11_Witness ==
    /\ pc = "cleaned"
    /\ uploaded_file.header = << <<"a","-",".","b","#","c">> >>
    /\ columns = << <<"A","_","B","#","C">> >>

\* the correction of a misread name
C11_WitnessCorrected ==
    /\ pc = "cleaned"
    /\ uploaded_file.header = << <<"P","r","o","j","e","c"," ","T","I","D">> >>
    /\ columns = << PROJECT_ID >>

-----------------------------------------------------------------------------
(* Properties of the selection for coercion                                *)

\* the positions at which line 77 has selected the financial columns
AfterSelect == {"converted", "raised"} \cup AfterClassify

AllowListed ==
    { ALL_PRIOR_YEARS_ACTUALS, BUSINESS_ALLOCATION, CURRENT_EAC,
      QE_FORECAST_VS_QE_PLAN, FORECAST_VS_BA, YE_RUN, RATE, QE_RUN,
      RATE_SUPPLEMENTARY }

MonthlyTypes == { << "A" >>, << "F" >>, << "C", "P" >> }

\* <yyyy>_<MM>_<A / F / CP> with a year among years, followed by nothing or,
\* where repeats is TRUE, by _<digits>
MonthlyForm(name, years, repeats) ==
    \E suffix \in MonthlyTypes :
        LET base == 8 + Len(suffix)
        IN  /\ Len(name) >= base
            /\ \A k \in {1, 2, 3, 4, 6, 7} : IsDigit(name[k])
            /\ StrToInt(SubSeq(name, 1, 4)) \in years
            /\ name[5] = "_" /\ name[8] = "_"
            /\ SubSeq(name, 9, base) = suffix
            /\ \/ Len(name) = base
               \/ /\ repeats
                  /\ Len(name) >= base + 2
                  /\ name[base + 1] = "_"
                  /\ \A k \in (base + 2)..Len(name) : IsDigit(name[k])

\* the column at position i is in one of the three monthly lists
accepted_monthly(i) ==
    columns[i] \in Range(monthly_actuals_cols) \cup Range(monthly_forecasts_cols)
                      \cup Range(monthly_plan_cols)

\* the cell of row r at position i is the number its raw text reads as
\* without commas, 0 when it reads as none
comma_stripped(r, i) ==
    LET t == bare_text(uploaded_file.rows[r][i])
    IN  /\ data[r][i].k = "num"
        /\ data[r][i].v = IF reads_as_number(t) THEN number_read(t) ELSE 0

C12_WitnessOutsideCentury ==
    /\ pc = "classified"
    /\ current_year = 2100
    /\ columns = << <<"2","1","0","0","_","0","1","_","A">> >>
    /\ financial_cols_to_convert = << >>
    /\ monthly_actuals_cols = columns
    /\ data[1][1] = Num(0)

-----------------------------------------------------------------------------
(* Properties of the run as a whole                                        *)

\* C13: load_data never raises on an upload that parses as a table, whatever
\* its headers and cells.
C13_NeverRaises == uploaded_file.ok => pc # "raised"

\* the table load_data handed to the script
table == << columns, data, derived >>

\* nothing of the rankings is shown
no_ranking ==
    /\ top5_managers = << >> /\ bottom5_managers = << >>
    /\ top5_projects = << >> /\ bottom5_projects = << >>

\* C14: a run on a table without one of the optional descriptor columns
\* (project name, project manager, portfolio level, sub-portfolio level,
\* classification, fund decision) goes through every section without raising.
C14_ViewsComplete == pc # "view_raised"

\* C15: when the read of the upload fails, load_data reports the error and
\* returns the empty table, and nothing else happens in the run: no column is
\* cleaned, selected or classified, nothing derived, filtered, ranked or shown
\* but the request for a valid file.
C15_FailedRead ==
    ~uploaded_file.ok =>
        /\ pc \in {"start", "returned", "cached", "done"}
        /\ pc # "start" => "Error loading file" \in warnings
        /\ columns = << >> /\ data = << >> /\ derived = << >>
        /\ financial_cols_to_convert = << >>
        /\ monthly_actuals_cols = << >> /\ monthly_forecasts_cols = << >>
        /\ monthly_plan_cols = << >> /\ ytd_actual_cols = << >>
        /\ monthly_af_variance_cols = << >>
        /\ selected_filters = << >> /\ filtered_df = << >>
        /\ no_ranking
        /\ rendered \in { << >>, << PleaseUpload >> }

\* the run of an unreadable upload at its end
C15_Witness ==
    /\ ~uploaded_file.ok
    /\ pc = "done"
    /\ "Error loading file" \in warnings
    /\ rendered = << PleaseUpload >>
    /\ columns = << >>

\* the score of the project with label r
score_of(r) == derived[r].TOTAL_MONTHLY_SPREAD_SCORE

\* C16: the top-5 project view holds five of the filtered projects (all of
\* them when they are fewer), in ascending order of the spread score, and no
\* project left out of it has a strictly smaller score than one in it: it is
\* the head of the whole filtered table sorted by score.
C16_TopFive ==
    pc = "rendered" =>
        LET kept == Range(filtered_df)
            top == top5_projects
        IN  /\ Len(top) = (IF Cardinality(kept) < 5 THEN Cardinality(kept) ELSE 5)
            /\ Range(top) \subseteq kept
            /\ Distinct(top)
            /\ \A i, j \in 1..Len(top) : i < j => score_of(top[i]) <= score_of(top[j])
            /\ \A r \in kept \ Range(top) : \A q \in Range(top) :
                  score_of(r) >= score_of(q)

\* six projects whose scores fall with the row: the view is the last five
\* rows in reverse, the first row left out
C16_Witness ==
    /\ pc = "rendered"
    /\ filtered_df = << 1, 2, 3, 4, 5, 6 >>
    /\ \A r \in 1..6 : score_of(r) = (6 - r) * Scale
    /\ top5_projects = << 6, 5, 4, 3, 2 >>
    /\ bottom5_projects = << 1, 2, 3, 4, 5 >>

\* C17: in the rankings shown, rows of equal score stand in their original
\* order: projects by row, managers by the order of their groups.
C17_StableRanking ==
    pc = "rendered" =>
        /\ \A view \in {top5_projects, bottom5_projects} :
              \A i, j \in 1..Len(view) :
                  (i < j /\ score_of(view[i]) = score_of(view[j])) => view[i] < view[j]
        /\ \A view \in {top5_managers, bottom5_managers} :
              \A i, j \in 1..Len(view) :
                  (i < j /\ view[i].Total_Monthly_Spread = view[j].Total_Monthly_Spread)
                      => text_less(view[i].PROJECT_MANAGER, view[j].PROJECT_MANAGER)

\* C18: the table a run takes from the cache is the table load_data would
\* compute in that run: its year-to-date spend is that of the current month
\* and its variance columns are those of the current year.
C18_CachedTableFresh ==
    (pc = "cached" /\ uploaded_file.ok) =>
        /\ \A r \in Rows :
              derived[r].SUM_ACTUAL_SPEND_YTD = Sum(amounts(r), YtdPositions(current_month))
        /\ monthly_af_variance_cols = [m \in 1..12 |-> variance_name(m)]

\* C19: when the filters leave no row the run shows the warning and stops:
\* no section and no ranking is shown, the table stays as it was, and the
\* next step is a new run of the script.
C19_EmptyFilterStops ==
    [][ /\ (pc \in {"returned", "cached"} /\ NumRows > 0 /\ filtered_df' = << >>) =>
              /\ pc' = "stopped"
              /\ rendered' = << NoMatch >>
              /\ no_ranking'
              /\ table' = table
        /\ pc = "stopped" =>
              /\ pc' = "cached"
              /\ rendered' = << >>
              /\ table' = table ]_vars

\* both projects filtered away by two selections that no row meets together
C19_Witness ==
    /\ pc = "stopped"
    /\ NumRows = 2
    /\ filtered_df = << >>
    /\ Cardinality({k \in 1..Len(selected_filters) : selected_filters[k] # All}) = 2
    /\ rendered = << NoMatch >>
    /\ no_ranking

\* C20: every row load_data returns has AVG_ACTUAL_SPEND, the year-to-date
\* spend over the number of year-to-date actuals months (1 when there is
\* none), and AVG_FORECAST_SPEND, the total of the forecasts over the number
\* of forecast months (1 when there is none).
C20_AverageSpend ==
    Loaded =>
        \A r \in Rows :
            /\ {"AVG_ACTUAL_SPEND", "AVG_FORECAST_SPEND"} \subseteq DOMAIN derived[r]
            /\ derived[r].AVG_ACTUAL_SPEND
                   * (IF Len(ytd_actual_cols) < 1 THEN 1 ELSE Len(ytd_actual_cols))
                 = derived[r].SUM_ACTUAL_SPEND_YTD
            /\ derived[r].AVG_FORECAST_SPEND
                   * (IF Len(monthly_forecasts_cols) < 1 THEN 1
                      ELSE Len(monthly_forecasts_cols))
                 = derived[r].TOTAL_FORECASTS

-----------------------------------------------------------------------------
(* Percentage deviation, net reallocation, repeated monthly headers         *)

\* the budget of row r: its business allocation, 0 without the column
budget_of(r) == IF has_column(BUSINESS_ALLOCATION) THEN amount(r, BUSINESS_ALLOCATION) ELSE 0

\* C21: every row load_data returns has a percentage deviation, which is
\* (actual - budget) / budget x 100 when the budget is not zero, +infinity
\* when the budget is zero and the actual spend is positive, and 0 when both
\* are zero.
C21_PercentageDeviation ==
    Loaded =>
        \A r \in Rows :
            /\ "PERCENTAGE_DEVIATION" \in DOMAIN derived[r]
            /\ LET p == derived[r].PERCENTAGE_DEVIATION
                   actual == derived[r].TOTAL_ACTUALS_TO_DATE
                   budget == budget_of(r)
               IN  /\ budget # 0 =>
                         /\ p.k = "num"
                         /\ p.v * budget = (actual - budget) * 100 * Scale
                   /\ (budget = 0 /\ actual > 0) => p.k = "inf"
                   /\ (budget = 0 /\ actual = 0) => (p.k = "num" /\ p.v = 0)

monthly_header(canon, i) ==
    \E suffix \in MonthlyTypes : ExactMonthly(canon[i], current_year, suffix)

\* the first occurrences of the monthly headers of one type
FirstOccurrences(canon, suffix) ==
    {i \in 1..Len(canon) :
        ExactMonthly(canon[i], current_year, suffix) /\ repeats_before(canon, i) = 0}

\* C23: for every header sequence, a repeat of a monthly header becomes the
\* suffixed name, is coerced to numbers and is in no list; every name the
\* classifier accepts is the name of one column only; and each total is the
\* sum over the first occurrences of the monthly headers of its type.
C23_RepeatsNotCounted ==
    (pc \in AfterSelect \/ Loaded) =>
        LET canon == canonical
        IN  /\ \A i \in 1..Len(columns) :
                  (monthly_header(canon, i) /\ repeats_before(canon, i) > 0) =>
                      /\ columns[i] = canon[i] \o << "_" >>
                                          \o IntToStr(repeats_before(canon, i))
                      /\ \A r \in Rows : data[r][i].k = "num"
                      /\ ~accepted_monthly(i)
            /\ \A i \in 1..Len(columns) :
                  accepted_monthly(i) => Cardinality(positions(columns[i])) = 1
            /\ (pc \in {"totals", "spend", "capital"} \/ Loaded) =>
                  \A r \in Rows :
                      /\ derived[r].TOTAL_ACTUALS
                            = Sum(amounts(r), FirstOccurrences(canon, << "A" >>))
                      /\ derived[r].TOTAL_FORECASTS
                            = Sum(amounts(r), FirstOccurrences(canon, << "F" >>))
                      /\ derived[r].TOTAL_CAPITAL_PLAN
                            = Sum(amounts(r), FirstOccurrences(canon, << "C", "P" >>))

====
